---- MODULE Spec2Model ----
(***************************************************************************)
(* Model of ucsd_scraper/parse_prereqs.py: the course-code extractor, the  *)
(* prerequisite clause parser and the prerequisite graph edge compiler.    *)
(*                                                                         *)
(* A Python str is a sequence of one-character strings.  An optional value *)
(* (str | None) is a record [isNone, str].  A course code handled by the   *)
(* edge compiler is an opaque key, written as a TLA+ string.               *)
(***************************************************************************)
EXTENDS Integers, Sequences, FiniteSets, TLC

VARIABLES pc, raw, and_segments, seg_i, result, last_dept, text, codes, courses, edges

vars == <<pc, raw, and_segments, seg_i, result, last_dept, text, codes, courses, edges>>

----------------------------------------------------------------------------
(* Character classes of the regular expressions and of str.strip().        *)

Upper == {"A", "B", "C", "D", "E", "F", "G", "H", "I", "J", "K", "L", "M",
          "N", "O", "P", "Q", "R", "S", "T", "U", "V", "W", "X", "Y", "Z"}

Lower == {"a", "b", "c", "d", "e", "f", "g", "h", "i", "j", "k", "l", "m",
          "n", "o", "p", "q", "r", "s", "t", "u", "v", "w", "x", "y", "z"}

Digit == {"0", "1", "2", "3", "4", "5", "6", "7", "8", "9"}

Whitespace == {" ", "\t", "\n"}

TrailingPunct == {".", ",", ";"}

NoneValue == [isNone |-> TRUE, str |-> <<>>]

Some(s) == [isNone |-> FALSE, str |-> s]

Min(S) == CHOOSE x \in S : \A y \in S : x <= y

Max(S) == CHOOSE x \in S : \A y \in S : x >= y

----------------------------------------------------------------------------
(* Primitive string operations used by the source.                         *)

\* Last index of the maximal run of characters of `set` that starts at i
\* (i - 1 when s[i] is not in `set`): a greedy `[set]*` at position i.
RunEnd(s, i, set) ==
    LET stops == {j \in i..Len(s) : s[j] \notin set}
    IN  IF stops = {} THEN Len(s) ELSE Min(stops) - 1

\* str.rstrip(chars)
rstrip(s, set) ==
    LET keep == {i \in 1..Len(s) : s[i] \notin set}
    IN  IF keep = {} THEN <<>> ELSE SubSeq(s, 1, Max(keep))

\* str.strip()
strip(s) ==
    LET keep == {i \in 1..Len(s) : s[i] \notin Whitespace}
    IN  IF keep = {} THEN <<>> ELSE SubSeq(s, Min(keep), Max(keep))

\* str.split()[0]: the first whitespace-delimited word
FirstWord(s) ==
    LET keep == {i \in 1..Len(s) : s[i] \notin Whitespace}
    IN  IF keep = {} THEN <<>>
        ELSE LET stops == {j \in Min(keep)..Len(s) : s[j] \in Whitespace}
             IN  SubSeq(s, Min(keep), IF stops = {} THEN Len(s) ELSE Min(stops) - 1)

\* re.sub(r"[.,;]+$", "", code); `$` also matches before a final newline
SubTrailingPunct(s) ==
    LET n == Len(s)
    IN  IF n > 0 /\ s[n] \in TrailingPunct THEN rstrip(s, TrailingPunct)
        ELSE IF n > 1 /\ s[n] = "\n" /\ s[n - 1] \in TrailingPunct
             THEN rstrip(SubSeq(s, 1, n - 1), TrailingPunct) \o <<"\n">>
             ELSE s

----------------------------------------------------------------------------
(* Code Extractor                                                          *)

\* COURSE_CODE_RE = [A-Z]{2,4} \d+[A-Z]* tried at position i: the index of
\* the last character of the match, 0 when there is none.  {2,4} is greedy:
\* the longest department that is followed by a space and a digit wins.
COURSE_CODE_RE_MatchEnd(s, i) ==
    LET ks == {k \in 2..4 : /\ i + k + 1 <= Len(s)
                            /\ \A j \in i..(i + k - 1) : s[j] \in Upper
                            /\ s[i + k] = " "
                            /\ s[i + k + 1] \in Digit}
    IN  IF ks = {} THEN 0
        ELSE RunEnd(s, RunEnd(s, i + Max(ks) + 1, Digit) + 1, Upper)

\* COURSE_CODE_RE.finditer(text) from position i on: the non-overlapping
\* matches, left to right, as <<first, last>> index pairs.
RECURSIVE COURSE_CODE_RE_FindIter(_, _)
COURSE_CODE_RE_FindIter(s, i) ==
    IF i > Len(s) THEN <<>>
    ELSE LET e == COURSE_CODE_RE_MatchEnd(s, i)
         IN  IF e = 0 THEN COURSE_CODE_RE_FindIter(s, i + 1)
             ELSE <<(<<i, e>>)>> \o COURSE_CODE_RE_FindIter(s, e + 1)

InSeq(x, sq) == \E i \in 1..Len(sq) : sq[i] = x

\* The mutated guard of the extraction loop: the `code not in codes` test lost.
KeepCode_NoDedup(code, acc) == code # <<>>

\* `if code and code not in codes`
KeepCode(code, acc) == code # <<>> /\ ~InSeq(code, acc)

\* The body of the extraction loop over the matches ms[k..]
RECURSIVE ExtractLoop(_, _, _, _)
ExtractLoop(s, ms, k, acc) ==
    IF k > Len(ms) THEN acc
    ELSE LET code == SubTrailingPunct(strip(SubSeq(s, ms[k][1], ms[k][2])))
         IN  ExtractLoop(s, ms, k + 1, IF KeepCode(code, acc) THEN Append(acc, code) ELSE acc)

extract_course_codes(s) == ExtractLoop(s, COURSE_CODE_RE_FindIter(s, 1), 1, <<>>)

----------------------------------------------------------------------------
(* Prerequisite Clause Parser                                              *)

\* The mutated guard: the `not raw` half lost, so None reaches raw.strip().
IsAbsentOrBlank_NoNoneTest(r) == ~r.isNone /\ strip(r.str) = <<>>

\* `not raw or not raw.strip()`
IsAbsentOrBlank(r) == r.isNone \/ r.str = <<>> \/ strip(r.str) = <<>>

\* The mutated truncation: cut at the last semicolon (rsplit) instead.
FirstClause_AtLastSemicolon(s) ==
    LET semis == {i \in 1..Len(s) : s[i] = ";"}
    IN  IF semis = {} THEN s ELSE strip(SubSeq(s, 1, Max(semis) - 1))

\* `if ";" in text: text = text.split(";", 1)[0].strip()`
FirstClause(s) ==
    LET semis == {i \in 1..Len(s) : s[i] = ";"}
    IN  IF semis = {} THEN s ELSE strip(SubSeq(s, 1, Min(semis) - 1))

\* re.sub(r"\s+", " ", text): every maximal whitespace run becomes one space
RECURSIVE CollapseWhitespace(_)
CollapseWhitespace(s) ==
    IF s = <<>> THEN <<>>
    ELSE IF s[1] \in Whitespace
         THEN <<" ">> \o CollapseWhitespace(SubSeq(s, RunEnd(s, 1, Whitespace) + 1, Len(s)))
         ELSE <<s[1]>> \o CollapseWhitespace(Tail(s))

\* \s+and\s+ (IGNORECASE) tried at position i: the index of the last
\* character of the match, 0 when there is none.
AND_RE_MatchEnd(s, i) ==
    IF s[i] \notin Whitespace THEN 0
    ELSE LET j == RunEnd(s, i, Whitespace) + 1
         IN  IF /\ j + 3 <= Len(s)
                /\ s[j] \in {"a", "A"}
                /\ s[j + 1] \in {"n", "N"}
                /\ s[j + 2] \in {"d", "D"}
                /\ s[j + 3] \in Whitespace
             THEN RunEnd(s, j + 3, Whitespace)
             ELSE 0

\* re.split(r"\s+and\s+", text, flags=re.IGNORECASE): `from` is where the
\* current piece starts, i the position the scan has reached.
RECURSIVE AND_RE_Split(_, _, _)
AND_RE_Split(s, from, i) ==
    IF i > Len(s) THEN <<SubSeq(s, from, Len(s))>>
    ELSE LET e == AND_RE_MatchEnd(s, i)
         IN  IF e = 0 THEN AND_RE_Split(s, from, i + 1)
             ELSE <<SubSeq(s, from, i - 1)>> \o AND_RE_Split(s, e + 1, e + 1)

\* Lines 54-61: strip, truncate, normalise whitespace, split into AND-segments
AndSegments(s) == AND_RE_Split(CollapseWhitespace(FirstClause(strip(s))), 1, 1)

\* STANDALONE_NUM_RE = ^\d+[A-Z]?$ (IGNORECASE); `$` also matches before a
\* final newline
STANDALONE_NUM_RE_Match(s) ==
    LET t == IF Len(s) > 0 /\ s[Len(s)] = "\n" THEN SubSeq(s, 1, Len(s) - 1) ELSE s
        d == RunEnd(t, 1, Digit)
    IN  /\ d >= 1
        /\ \/ d = Len(t)
           \/ d + 1 = Len(t) /\ t[d + 1] \in (Upper \cup Lower)

\* The mutated shorthand rule: the `last_dept` test lost.
SegmentCodes_NoDeptTest(segment, dept) ==
    LET found == extract_course_codes(segment)
    IN  IF found = <<>> /\ STANDALONE_NUM_RE_Match(rstrip(segment, TrailingPunct))
        THEN <<dept.str \o <<" ">> \o strip(rstrip(segment, TrailingPunct))>>
        ELSE found

\* Lines 71-76: the codes of one non-empty, stripped segment
SegmentCodes(segment, dept) ==
    LET found == extract_course_codes(segment)
    IN  IF /\ found = <<>>
           /\ ~dept.isNone /\ dept.str # <<>>
           /\ STANDALONE_NUM_RE_Match(rstrip(segment, TrailingPunct))
        THEN <<dept.str \o <<" ">> \o strip(rstrip(segment, TrailingPunct))>>
        ELSE found

\* The mutated loop body: the department is taken from the first code of
\* the group (codes[0]) instead of the last.
LoopBody_DeptOfFirstCode(acc, seg) ==
    LET segment == strip(seg)
    IN  IF segment = <<>> THEN acc
        ELSE LET cs == SegmentCodes(segment, acc.last_dept)
             IN  IF cs # <<>>
                 THEN [result    |-> Append(acc.result, cs),
                       last_dept |-> Some(FirstWord(cs[1]))]
                 ELSE acc

\* One iteration of the loop over and_segments (lines 66-81) on the
\* accumulator acc = [result, last_dept]
LoopBody(acc, seg) ==
    LET segment == strip(seg)
    IN  IF segment = <<>> THEN acc
        ELSE LET cs == SegmentCodes(segment, acc.last_dept)
             IN  IF cs # <<>>
                 THEN [result    |-> Append(acc.result, cs),
                       last_dept |-> Some(FirstWord(cs[Len(cs)]))]
                 ELSE acc

RECURSIVE ParseLoop(_, _, _)
ParseLoop(segs, k, acc) ==
    IF k > Len(segs) THEN acc ELSE ParseLoop(segs, k + 1, LoopBody(acc, segs[k]))

\* parse_prereq_raw as a function of its argument
parse_prereq_raw(r) ==
    IF IsAbsentOrBlank(r) THEN <<>>
    ELSE ParseLoop(AndSegments(r.str), 1, [result |-> <<>>, last_dept |-> NoneValue]).result

----------------------------------------------------------------------------
(* Graph Edge Compiler                                                     *)

\* The mutated filter: every source becomes an edge.
IsKnownCourse_Always(source, cs) == TRUE

\* `source in code_to_course`, code_to_course being keyed by c["code"]
IsKnownCourse(source, cs) == source \in {cs[i].code : i \in 1..Len(cs)}

\* The mutated index: enumerate(structured, 1).
OrGroupIndex_FromOne(pos) == pos

\* enumerate(structured) numbers the groups from 0
OrGroupIndex(pos) == pos - 1

\* `course.get("prereq_structured") or []`
StructuredOf(course) ==
    IF course.prereq_structured.isNone THEN <<>> ELSE course.prereq_structured.groups

\* Lines 103-110: the edges of one OR-group, in the order of its codes
GroupEdges(cs, target, pos, or_tuple) ==
    LET kept == SelectSeq(or_tuple, LAMBDA source : IsKnownCourse(source, cs))
    IN  [k \in 1..Len(kept) |->
            [source |-> kept[k], target |-> target, or_group_index |-> OrGroupIndex(pos)]]

\* Lines 102-110: the edges of the groups pos.. of one course
RECURSIVE CourseEdges(_, _, _)
CourseEdges(cs, course, pos) ==
    IF pos > Len(StructuredOf(course)) THEN <<>>
    ELSE GroupEdges(cs, course.code, pos, StructuredOf(course)[pos])
             \o CourseEdges(cs, course, pos + 1)

\* Lines 99-111: the edges of the courses k.. of the catalog
RECURSIVE EdgesFrom(_, _)
EdgesFrom(cs, k) ==
    IF k > Len(cs) THEN <<>> ELSE CourseEdges(cs, cs[k], 1) \o EdgesFrom(cs, k + 1)

build_prereq_edges(cs) == EdgesFrom(cs, 1)

----------------------------------------------------------------------------
(* Inputs                                                                  *)

\* The longest sentence, in pieces, and the longest catalog, in courses
MaxPieces == 4

MaxCourses == 2

ECON_1 == <<"E", "C", "O", "N", " ", "1">>

MATH_20A == <<"M", "A", "T", "H", " ", "2", "0", "A">>

AND == <<" ", "a", "n", "d", " ">>

Pieces == {ECON_1, MATH_20A, AND, <<"3">>, <<"a">>, <<".">>, <<";">>, <<" ">>, <<"E", "C">>}

\* The sentences of the module docstring and of the catalog's prose
DocExampleSemicolon == <<"E", "C", "O", "N", " ", "1", "0", "0", "A", " ", "o", "r", " ", "E", "C", "O", "N", " ", "1", "2", "0", "A", " ", "o", "r", " ", "E", "C", "E", " ", "1", "0", "9", ";", " ", "a", "n", "d", " ", "M", "A", "T", "H", " ", "2", "0", "A">>

DocExampleShorthand == <<"E", "C", "O", "N", " ", "1", " ", "a", "n", "d", " ", "3", ".">>

ExampleTwoShorthands == <<"E", "C", "O", "N", " ", "1", " ", "a", "n", "d", " ", "3", " ", "a", "n", "d", " ", "7", "A">>

ExampleConsent == <<"c", "o", "n", "s", "e", "n", "t", " ", "o", "f", " ", "i", "n", "s", "t", "r", "u", "c", "t", "o", "r">>

ExampleSentences ==
    {DocExampleSemicolon, DocExampleShorthand, ExampleTwoShorthands, ExampleConsent,
     <<"E", "C", "O", "N", " ", "1", " ", "a", "n", "d", " ", "c", "o", "n", "s", "e", "n", "t", " ", "o", "f", " ", "i", "n", "s", "t", "r", "u", "c", "t", "o", "r", " ", "a", "n", "d", " ", "3">>,
     <<"E", "C", "O", "N", " ", "1", " ", "A", "N", "D", " ", "3", ",">>,
     <<"M", "A", "T", "H", " ", "2", "0", "A", " ", "o", "r", " ", "E", "C", "O", "N", " ", "1", " ", "a", "n", "d", " ", "7", "A", ";", " ", "a", "n", "d", " ", "3">>,
     <<"E", "C", "O", "N", "\t", "1", " ", "a", "n", "d", "\n", "3">>,
     <<"A", "B", "C", "D", "E", " ", "1", "0", "1">>,
     <<"M", "A", "T", "H", " ", "2", "0", "A", "1", " ", "o", "r", " ", "M", "A", "T", "H", " ", "2", "0", "A">>,
     <<"E", "C", "O", "N", " ", "1", " ", "o", "r", " ", "M", "A", "T", "H", " ", "2", "0", "A", " ", "o", "r", " ", "E", "C", "O", "N", " ", "1", ".">>,
     <<"M", "A", "T", "H", " ", "2", "0", "A", " ", "o", "r", " ", "E", "C", "O", "N", " ", "1", " ", "a", "n", "d", " ", "3">>,
     <<" ", " ", " ">>}

RECURSIVE PieceStrings(_)
PieceStrings(n) ==
    IF n = 0 THEN {<<>>}
    ELSE LET shorter == PieceStrings(n - 1)
         IN  shorter \cup {s \o p : s \in shorter, p \in Pieces}

Sentences == PieceStrings(MaxPieces) \cup ExampleSentences

\* Course codes as the edge compiler sees them: opaque dictionary keys
CourseKeys == {"CSE 8B", "CSE 12", "CSE 99"}

NoStructure == [isNone |-> TRUE, groups |-> <<>>]

Structure(gs) == [isNone |-> FALSE, groups |-> gs]

\* prereq_structured values: absent, empty, one or two groups, a code that
\* refers to its own course, a repeated code, a group of unknown codes only
Structures ==
    {NoStructure,
     Structure(<<>>),
     Structure(<<(<<"CSE 8B">>)>>),
     Structure(<<(<<"CSE 8B", "CSE 99">>)>>),
     Structure(<<(<<"CSE 99">>), <<"CSE 12", "CSE 8B">>>>),
     Structure(<<(<<"CSE 99", "CSE 12">>), <<"CSE 99">>, <<"CSE 8B">>>>),
     Structure(<<(<<"CSE 12", "CSE 8B", "CSE 12">>), <<"CSE 8B">>>>)}

Courses == [code : CourseKeys, prereq_structured : Structures]

RECURSIVE CatalogsUpTo(_)
CatalogsUpTo(n) ==
    IF n = 0 THEN {<<>>}
    ELSE LET shorter == CatalogsUpTo(n - 1)
         IN  shorter \cup {Append(cs, c) : cs \in shorter, c \in Courses}

Catalogs == CatalogsUpTo(MaxCourses)

----------------------------------------------------------------------------
(* The program as a state machine: one call of one function per behaviour. *)
(* pc is the call's position: "start" before it, "loop" inside the parser's *)
(* loop over and_segments, "done" after its return, "raised" after an      *)
(* exception.                                                              *)

(* extract_course_codes(text) *)

InitExtract ==
    /\ pc = "start"
    /\ text \in Sentences
    /\ raw = NoneValue /\ and_segments = <<>> /\ seg_i = 0 /\ result = <<>>
    /\ last_dept = NoneValue /\ codes = <<>> /\ courses = <<>> /\ edges = <<>>

Extract ==
    /\ pc = "start"
    /\ codes' = extract_course_codes(text)
    /\ pc' = "done"
    /\ UNCHANGED <<raw, and_segments, seg_i, result, last_dept, text, courses, edges>>

NextExtract == Extract

SpecExtract == InitExtract /\ [][NextExtract]_vars

(* parse_prereq_raw(raw) *)

InitParse ==
    /\ pc = "start"
    /\ raw \in {NoneValue} \cup {Some(s) : s \in Sentences}
    /\ and_segments = <<>> /\ seg_i = 0 /\ result = <<>> /\ last_dept = NoneValue
    /\ text = <<>> /\ codes = <<>> /\ courses = <<>> /\ edges = <<>>

\* Lines 51-64: the early return, or the segments and the loop's initial state.
\* raw.strip() on None raises AttributeError.
ParseBegin ==
    /\ pc = "start"
    /\ IF IsAbsentOrBlank(raw)
       THEN /\ pc' = "done"
            /\ UNCHANGED <<and_segments, seg_i>>
       ELSE IF raw.isNone
            THEN /\ pc' = "raised"
                 /\ UNCHANGED <<and_segments, seg_i>>
            ELSE /\ pc' = "loop"
                 /\ and_segments' = AndSegments(raw.str)
                 /\ seg_i' = 1
    /\ result' = <<>>
    /\ last_dept' = NoneValue
    /\ UNCHANGED <<raw, text, codes, courses, edges>>

\* Lines 66-81: one iteration of `for segment in and_segments`
ParseSegment ==
    /\ pc = "loop"
    /\ seg_i <= Len(and_segments)
    /\ LET acc == LoopBody([result |-> result, last_dept |-> last_dept], and_segments[seg_i])
       IN  /\ result' = acc.result
           /\ last_dept' = acc.last_dept
    /\ seg_i' = seg_i + 1
    /\ UNCHANGED <<pc, raw, and_segments, text, codes, courses, edges>>

\* Line 83: `return result`
ParseReturn ==
    /\ pc = "loop"
    /\ seg_i > Len(and_segments)
    /\ pc' = "done"
    /\ UNCHANGED <<raw, and_segments, seg_i, result, last_dept, text, codes, courses, edges>>

NextParse == ParseBegin \/ ParseSegment \/ ParseReturn

SpecParse == InitParse /\ [][NextParse]_vars

(* build_prereq_edges(courses) *)

InitEdges ==
    /\ pc = "start"
    /\ courses \in Catalogs
    /\ raw = NoneValue /\ and_segments = <<>> /\ seg_i = 0 /\ result = <<>>
    /\ last_dept = NoneValue /\ text = <<>> /\ codes = <<>> /\ edges = <<>>

BuildEdges ==
    /\ pc = "start"
    /\ edges' = build_prereq_edges(courses)
    /\ pc' = "done"
    /\ UNCHANGED <<raw, and_segments, seg_i, result, last_dept, text, codes, courses>>

NextEdges == BuildEdges

SpecEdges == InitEdges /\ [][NextEdges]_vars

----------------------------------------------------------------------------
(* What the claims speak of, stated without the program's own algorithms.  *)

\* c is a CourseCode: 2 to 4 uppercase letters, one space, one or more
\* digits, then zero or more uppercase letters
IsCourseCode(c) ==
    \E k \in 2..4 :
        /\ Len(c) >= k + 2
        /\ \A j \in 1..k : c[j] \in Upper
        /\ c[k + 1] = " "
        /\ \E d \in (k + 2)..Len(c) :
               /\ \A j \in (k + 2)..d : c[j] \in Digit
               /\ \A j \in (d + 1)..Len(c) : c[j] \in Upper

\* Some substring of s matches the course-code grammar
HasCourseCode(s) ==
    \E i \in 1..Len(s) : \E e \in (i + 3)..Len(s) : IsCourseCode(SubSeq(s, i, e))

\* One or more digits with an optional single letter
IsShorthand(t) ==
    \E n \in 1..Len(t) :
        /\ \A j \in 1..n : t[j] \in Digit
        /\ \/ n = Len(t)
           \/ n + 1 = Len(t) /\ t[n + 1] \in (Upper \cup Lower)

\* The department of a code: what precedes its first space
DeptOf(code) == SubSeq(code, 1, Min({j \in 1..Len(code) : code[j] = " "}) - 1)

HasSemicolon(s) == \E i \in 1..Len(s) : s[i] = ";"

FirstSemicolon(s) == Min({i \in 1..Len(s) : s[i] = ";"})

IsBlank(s) == \A i \in 1..Len(s) : s[i] \in Whitespace

\* The segment the loop is about to process, trimmed
InLoop == pc = "loop" /\ seg_i <= Len(and_segments)

CurrentSegment == strip(and_segments[seg_i])

CurrentShorthand == rstrip(CurrentSegment, TrailingPunct)

\* The segment the loop has just processed
PreviousSegment == strip(and_segments[seg_i - 1])

ECON_100A == <<"E", "C", "O", "N", " ", "1", "0", "0", "A">>

ECON_120A == <<"E", "C", "O", "N", " ", "1", "2", "0", "A">>

ECE_109 == <<"E", "C", "E", " ", "1", "0", "9">>

ECON_3 == <<"E", "C", "O", "N", " ", "3">>

ECON_7A == <<"E", "C", "O", "N", " ", "7", "A">>

----------------------------------------------------------------------------
(* C1: parse_prereq_raw on "ECON 100A or ECON 120A or ECE 109; and MATH    *)
(* 20A" returns the two groups (ECON 100A, ECON 120A, ECE 109) and         *)
(* (MATH 20A,): the requirement after "; and" is its own AND-group.        *)
C1_SemicolonAndGroup ==
    (pc = "done" /\ raw = Some(DocExampleSemicolon))
        => result = <<(<<ECON_100A, ECON_120A, ECE_109>>), <<MATH_20A>>>>

C3_ShorthandCarryOver ==
    /\ [][(/\ InLoop
           /\ ~HasCourseCode(CurrentSegment)
           /\ IsShorthand(CurrentShorthand)
           /\ result # <<>>)
          => result' = Append(result,
                 <<DeptOf(result[Len(result)][Len(result[Len(result)])])
                     \o <<" ">> \o CurrentShorthand>>)]_vars
    /\ []((pc = "done" /\ raw = Some(DocExampleShorthand))
            => result = <<(<<ECON_1>>), <<ECON_3>>>>)
    /\ []((pc = "done" /\ raw = Some(ExampleTwoShorthands))
            => result = <<(<<ECON_1>>), <<ECON_3>>, <<ECON_7A>>>>)

\* A shorthand segment has just been resolved with the department of a
\* group that lies two segments back, a non-course segment in between
C3_Witness ==
    /\ pc = "loop" /\ seg_i = 4
    /\ IsShorthand(rstrip(PreviousSegment, TrailingPunct))
    /\ ~HasCourseCode(and_segments[2]) /\ ~IsShorthand(rstrip(strip(and_segments[2]), TrailingPunct))
    /\ result = <<(<<ECON_1>>), <<ECON_3>>>>

(* C6: empty/absent law.  For None, the empty string and a string of       *)
(* whitespace only, parse_prereq_raw raises nothing and returns [].        *)
C6_EmptyAbsentLaw ==
    (raw.isNone \/ IsBlank(raw.str))
        => (pc # "raised" /\ (pc = "done" => result = <<>>))

C6_Witness == pc = "done" /\ raw.isNone /\ result = <<>>

(* C8 as stated: for a sentence no substring of which matches the          *)
(* course-code grammar, parse_prereq_raw returns [].                       *)
C8_NoCodeNoGroup ==
    (pc = "done" /\ ~raw.isNone /\ ~HasCourseCode(raw.str)) => result = <<>>

(* C8, amended: for a sentence no substring of which matches the           *)
(* course-code grammar once every run of whitespace is collapsed to one    *)
(* space, parse_prereq_raw returns []; and a segment that yields no code   *)
(* and does not qualify for the shorthand rule never adds a group.         *)
C8_NoCodeAfterCollapseNoGroup ==
    /\ []((pc = "done" /\ ~raw.isNone /\ ~HasCourseCode(CollapseWhitespace(raw.str)))
            => result = <<>>)
    /\ [][(/\ InLoop
           /\ ~HasCourseCode(CurrentSegment)
           /\ ~(result # <<>> /\ IsShorthand(CurrentShorthand)))
          => result' = result]_vars

\* A sentence of bare numbers joined by "and", with no department before
\* them, has been parsed to nothing
C8_Witness ==
    /\ pc = "done" /\ ~raw.isNone /\ ~HasCourseCode(CollapseWhitespace(raw.str))
    /\ Len(and_segments) >= 2
    /\ \A k \in 1..Len(and_segments) : IsShorthand(strip(and_segments[k]))
    /\ result = <<>>

(* C9: every group returned by parse_prereq_raw is a non-empty tuple and   *)
(* every member of it, synthesized ones included, is a CourseCode.         *)
C9_WellFormedOutput ==
    \A g \in 1..Len(result) :
        /\ result[g] # <<>>
        /\ \A m \in 1..Len(result[g]) : IsCourseCode(result[g][m])

----------------------------------------------------------------------------
(* C7: the list returned by extract_course_codes holds no code twice, and  *)
(* its codes are in the order of their first matches in the text.          *)
C7_NoDuplicatesFirstOccurrenceOrder ==
    pc = "done" =>
        LET ms == COURSE_CODE_RE_FindIter(text, 1)
            At(c) == {ms[k][1] : k \in {n \in 1..Len(ms) : SubSeq(text, ms[n][1], ms[n][2]) = c}}
        IN  /\ \A a, b \in 1..Len(codes) : a # b => codes[a] # codes[b]
            /\ \A a \in 1..Len(codes) : At(codes[a]) # {}
            /\ \A a, b \in 1..Len(codes) : a < b => Min(At(codes[a])) < Min(At(codes[b]))

\* Two codes returned from a text in which one of them is matched again
C7_Witness ==
    /\ pc = "done" /\ Len(codes) = 2
    /\ Len(COURSE_CODE_RE_FindIter(text, 1)) = 3

(* C10: every code returned by extract_course_codes is a complete token of *)
(* the text: it occurs in it with no uppercase letter right before its     *)
(* department and no letter or digit right after it.                       *)
C10_NoPartialMatches ==
    pc = "done" =>
        \A a \in 1..Len(codes) :
            \E i \in 1..Len(text) :
                LET e == i + Len(codes[a]) - 1
                IN  /\ e <= Len(text)
                    /\ SubSeq(text, i, e) = codes[a]
                    /\ (i = 1 \/ text[i - 1] \notin Upper)
                    /\ (e = Len(text) \/ text[e + 1] \notin (Upper \cup Lower \cup Digit))

----------------------------------------------------------------------------
Keys(cs) == {cs[i].code : i \in 1..Len(cs)}

UniqueCodes(cs) == \A i, j \in 1..Len(cs) : i # j => cs[i].code # cs[j].code

\* The sources of the edges into `target` in group `index`, in emission order
SourcesOf(target, index) ==
    LET sel == SelectSeq(edges, LAMBDA e : e.target = target /\ e.or_group_index = index)
    IN  [k \in 1..Len(sel) |-> sel[k].source]

\* The catalog of the specification's edge-filtering example
ExampleCatalog ==
    <<[code |-> "CSE 12", prereq_structured |-> Structure(<<(<<"CSE 8B", "CSE 99">>)>>)],
      [code |-> "CSE 8B", prereq_structured |-> NoStructure]>>

(* C4: edge grouping reconstruction.  In a catalog of unique codes, the    *)
(* sources of the edges into a course with or_group_index i, in emission   *)
(* order, are the i-th group of its prereq_structured without the codes    *)
(* that are no catalog keys; an index out of range has no edge.            *)
C4_EdgeGroupingReconstruction ==
    (pc = "done" /\ UniqueCodes(courses)) =>
        \A c \in 1..Len(courses) :
            LET groups == StructuredOf(courses[c])
                target == courses[c].code
                used   == {edges[e].or_group_index : e \in {n \in 1..Len(edges) : edges[n].target = target}}
            IN  \A i \in used \cup (0..Len(groups)) :
                    SourcesOf(target, i) =
                        IF i \in 0..(Len(groups) - 1)
                        THEN SelectSeq(groups[i + 1], LAMBDA code : code \in Keys(courses))
                        ELSE <<>>

\* A course of a two-course catalog with edges in two groups, one code of
\* which was filtered out
C4_Witness ==
    /\ pc = "done" /\ UniqueCodes(courses) /\ Len(courses) = 2
    /\ \E c \in 1..Len(courses) :
           /\ SourcesOf(courses[c].code, 0) # <<>>
           /\ SourcesOf(courses[c].code, 1) # <<>>
           /\ \E g \in 1..Len(StructuredOf(courses[c])) :
                  Len(SourcesOf(courses[c].code, g - 1)) < Len(StructuredOf(courses[c])[g])

(* C5: no dangling edges.  Source and target of every edge are codes of    *)
(* courses of the catalog; every catalog-known code of a group has its     *)
(* edge; the specification's example catalog gives the one edge            *)
(* CSE 8B -> CSE 12 in group 0.                                            *)
C5_NoDanglingEdges ==
    pc = "done" =>
        /\ \A e \in 1..Len(edges) :
               edges[e].source \in Keys(courses) /\ edges[e].target \in Keys(courses)
        /\ \A c \in 1..Len(courses) :
               \A g \in 1..Len(StructuredOf(courses[c])) :
                   \A m \in 1..Len(StructuredOf(courses[c])[g]) :
                       StructuredOf(courses[c])[g][m] \in Keys(courses)
                           => \E e \in 1..Len(edges) :
                                  edges[e] = [source |-> StructuredOf(courses[c])[g][m],
                                              target |-> courses[c].code,
                                              or_group_index |-> g - 1]
        /\ courses = ExampleCatalog
               => edges = <<[source |-> "CSE 8B", target |-> "CSE 12", or_group_index |-> 0]>>

C5_Witness ==
    /\ pc = "done" /\ courses = ExampleCatalog /\ Len(edges) = 1

====
